---- MODULE Spec2Model ----
(***************************************************************************)
(* FX options portfolio risk aggregator: validation, Garman-Kohlhagen      *)
(* pricing, currency-converting aggregation and the run() orchestration.   *)
(*                                                                         *)
(* Numbers.  Every float field of a trade (strike, spot, notional, expiry, *)
(* volatility, rates) is a fixed-point integer counting tenths: Dec(1) is  *)
(* 1.0, so 11 is 1.1 and -1 is -0.1.  Money amounts (pv, delta, vega and   *)
(* the portfolio totals) are integers counting a fixed amount unit, which  *)
(* the pricing section states for each of the three.                       *)
(* Text is a TLA+ string; SubSeq, Len and \o act on its characters.        *)
(***************************************************************************)
EXTENDS Integers, Sequences, FiniteSets, TLC

VARIABLES
    pc,                  \* where the modelled call or run stands
    raw_trades,          \* List[RawTrade]: the loader's output
    validation_result,   \* ValidationResult, or None
    priced_trades,       \* List[PricedTrade] (or the pricing inputs' results)
    portfolio_summary,   \* outcome of aggregate_portfolio, or None
    config,              \* Config: valuation_date and reporting_currency
    output_file,         \* what write_results wrote, or None
    exit_status,         \* the process's exit status, or None while running
    printed              \* the lines run has printed about failed validation

vars == <<pc, raw_trades, validation_result, priced_trades, portfolio_summary,
          config, output_file, exit_status, printed>>

None == "None"

\* Longest input list of the sequence-shaped checks.
MaxTrades == 2

\* n as a fixed-point float: tenths.
Dec(n) == n * 10

Abs(x) == IF x < 0 THEN -x ELSE x

(***************************************************************************)
(* Text helpers: str.upper(), str.replace(c, ""), str(float).              *)
(***************************************************************************)
LowerLetters == "abcdefghijklmnopqrstuvwxyz"
UpperLetters == "ABCDEFGHIJKLMNOPQRSTUVWXYZ"

Char(s, i) == SubSeq(s, i, i)

UpperChar(c) ==
    IF \E i \in 1..Len(LowerLetters) : Char(LowerLetters, i) = c
    THEN LET i == CHOOSE k \in 1..Len(LowerLetters) : Char(LowerLetters, k) = c
         IN  Char(UpperLetters, i)
    ELSE c

RECURSIVE Upper(_)
Upper(s) ==
    IF Len(s) = 0 THEN ""
    ELSE UpperChar(Char(s, 1)) \o Upper(SubSeq(s, 2, Len(s)))

\* s.replace(c, "") for a one-character c
RECURSIVE Remove(_, _)
Remove(s, c) ==
    IF Len(s) = 0 THEN ""
    ELSE (IF Char(s, 1) = c THEN "" ELSE Char(s, 1)) \o Remove(SubSeq(s, 2, Len(s)), c)

StartsWith(s, p) == Len(p) <= Len(s) /\ SubSeq(s, 1, Len(p)) = p

\* str(x) of a float holding tenths: "-0.3", "0.0", "10.1"
FloatStr(x) ==
    (IF x < 0 THEN "-" ELSE "") \o ToString(Abs(x) \div 10) \o "."
        \o ToString(Abs(x) % 10)

(***************************************************************************)
(* models.py: the enums and ValidatedTrade's constraints.                  *)
(***************************************************************************)
OptionType == {"CALL", "PUT"}

CurrencyPair == {"EURUSD", "GBPUSD", "USDJPY", "AUDUSD", "USDCAD", "USDCHF"}

ExpiryMax == Dec(10)       \* time_to_expiry le=10.0
VolFieldMax == Dec(5)      \* volatility le=5.0
VolCeiling == Dec(1)       \* validate_business_rules: volatility > 1.0
RateMin == -1              \* ge=-0.1
RateMax == Dec(1)          \* le=1.0
NotionalCurrencies == {"USD", "JPY"}

\* The fields whose Field(...) constraint the values violate, in declaration
\* order: pydantic reports all of them in one ValidationError.
FieldErrors(strike, notional, expiry, spot, vol, rd, rf) ==
    (IF strike > 0 THEN <<>> ELSE <<"strike">>)
    \o (IF notional > 0 THEN <<>> ELSE <<"notional">>)
    \o (IF expiry > 0 /\ expiry <= ExpiryMax THEN <<>> ELSE <<"time_to_expiry">>)
    \o (IF spot > 0 THEN <<>> ELSE <<"spot">>)
    \o (IF vol > 0 /\ vol <= VolFieldMax THEN <<>> ELSE <<"volatility">>)
    \o (IF rd >= RateMin /\ rd <= RateMax THEN <<>> ELSE <<"domestic_rate">>)
    \o (IF rf >= RateMin /\ rf <= RateMax THEN <<>> ELSE <<"foreign_rate">>)

RECURSIVE JoinLines(_)
JoinLines(names) ==
    IF names = <<>> THEN ""
    ELSE "\n" \o Head(names) \o JoinLines(Tail(names))

\* "{volatility:.2%}" of a volatility in tenths: 1.1 -> "110.00%"
PercentStr(vol) == ToString(vol * 10) \o ".00%"

\* Mutant of BusinessRuleError: the 100% volatility rule is missing, so the
\* field bound of 500% is the only ceiling.
BusinessRuleErrorNoCeiling(vol, ccy) ==
    IF ccy \notin NotionalCurrencies
    THEN "NotionalCurrency must be USD or JPY, got " \o ccy
    ELSE None

\* ValidatedTrade.validate_business_rules (mode='after'): the first rule
\* that fails raises; None when both pass.
BusinessRuleError(vol, ccy) ==
    IF vol > VolCeiling
    THEN "Volatility " \o PercentStr(vol) \o " seems unreasonably high"
    ELSE IF ccy \notin NotionalCurrencies
    THEN "NotionalCurrency must be USD or JPY, got " \o ccy
    ELSE None

Ok(v) == [kind |-> "ok", value |-> v]
Raise(m) == [kind |-> "raise", value |-> m]

\* ValidatedTrade(...): the field constraints, then the model validator.
\* str(e) of the pydantic error: its count line, then the failing fields.
NewValidatedTrade(t) ==
    LET bad == FieldErrors(t.strike, t.notional, t.time_to_expiry, t.spot,
                           t.volatility, t.domestic_rate, t.foreign_rate)
        rule == BusinessRuleError(t.volatility, t.notional_currency)
    IN  IF bad # <<>>
        THEN Raise(ToString(Len(bad)) \o " validation error"
                   \o (IF Len(bad) > 1 THEN "s" ELSE "")
                   \o " for ValidatedTrade" \o JoinLines(bad))
        ELSE IF rule # None
        THEN Raise("1 validation error for ValidatedTrade\n  Value error, " \o rule)
        ELSE Ok(t)

(***************************************************************************)
(* services/validator.py                                                   *)
(***************************************************************************)
\* Mutant of NormalizeUnderlying: the slash stays.
NormalizeUnderlyingKeepSlash(u) == Upper(Remove(u, " "))

NormalizeUnderlying(u) == Upper(Remove(Remove(u, "/"), " "))

\* Mutant of ValidateSingleTrade: the option type is matched as written.
ValidateSingleTradeExactCase(raw) ==
    LET option_type_str == raw.OptionType
        currency_pair_normalized == NormalizeUnderlying(raw.Underlying)
    IN  IF option_type_str \notin OptionType
        THEN Raise("Invalid OptionType '" \o raw.OptionType
                   \o "'. Must be one of: ['CALL', 'PUT']")
        ELSE IF currency_pair_normalized \notin CurrencyPair
        THEN Raise("Invalid Underlying '" \o raw.Underlying
                   \o "'. Must be one of: EUR/USD, GBP/USD, or USD/JPY")
        ELSE IF raw.Expiry <= 0
        THEN Raise("Expiry must be positive, got " \o FloatStr(raw.Expiry))
        ELSE LET made == NewValidatedTrade(
                     [trade_id |-> raw.TradeID,
                      currency_pair |-> currency_pair_normalized,
                      option_type |-> option_type_str,
                      strike |-> raw.Strike,
                      notional |-> raw.Notional,
                      notional_currency |-> raw.NotionalCurrency,
                      time_to_expiry |-> raw.Expiry,
                      spot |-> raw.Spot,
                      volatility |-> raw.Vol,
                      domestic_rate |-> raw.RateDomestic,
                      foreign_rate |-> raw.RateForeign])
             IN  IF made.kind = "raise"
                 THEN Raise("Validation error: " \o made.value)
                 ELSE made

\* Mutant of ValidateSingleTrade: the expiry is tested first.
ValidateSingleTradeExpiryFirst(raw) ==
    LET option_type_str == Upper(raw.OptionType)
        currency_pair_normalized == NormalizeUnderlying(raw.Underlying)
    IN  IF raw.Expiry <= 0
        THEN Raise("Expiry must be positive, got " \o FloatStr(raw.Expiry))
        ELSE IF option_type_str \notin OptionType
        THEN Raise("Invalid OptionType '" \o raw.OptionType
                   \o "'. Must be one of: ['CALL', 'PUT']")
        ELSE IF currency_pair_normalized \notin CurrencyPair
        THEN Raise("Invalid Underlying '" \o raw.Underlying
                   \o "'. Must be one of: EUR/USD, GBP/USD, or USD/JPY")
        ELSE LET made == NewValidatedTrade(
                     [trade_id |-> raw.TradeID,
                      currency_pair |-> currency_pair_normalized,
                      option_type |-> option_type_str,
                      strike |-> raw.Strike,
                      notional |-> raw.Notional,
                      notional_currency |-> raw.NotionalCurrency,
                      time_to_expiry |-> raw.Expiry,
                      spot |-> raw.Spot,
                      volatility |-> raw.Vol,
                      domestic_rate |-> raw.RateDomestic,
                      foreign_rate |-> raw.RateForeign])
             IN  IF made.kind = "raise"
                 THEN Raise("Validation error: " \o made.value)
                 ELSE made

ValidateSingleTrade(raw) ==
    LET option_type_str == Upper(raw.OptionType)
        currency_pair_normalized == NormalizeUnderlying(raw.Underlying)
    IN  IF option_type_str \notin OptionType
        THEN Raise("Invalid OptionType '" \o raw.OptionType
                   \o "'. Must be one of: ['CALL', 'PUT']")
        ELSE IF currency_pair_normalized \notin CurrencyPair
        THEN Raise("Invalid Underlying '" \o raw.Underlying
                   \o "'. Must be one of: EUR/USD, GBP/USD, or USD/JPY")
        ELSE IF raw.Expiry <= 0
        THEN Raise("Expiry must be positive, got " \o FloatStr(raw.Expiry))
        ELSE LET made == NewValidatedTrade(
                     [trade_id |-> raw.TradeID,
                      currency_pair |-> currency_pair_normalized,
                      option_type |-> option_type_str,
                      strike |-> raw.Strike,
                      notional |-> raw.Notional,
                      notional_currency |-> raw.NotionalCurrency,
                      time_to_expiry |-> raw.Expiry,
                      spot |-> raw.Spot,
                      volatility |-> raw.Vol,
                      domestic_rate |-> raw.RateDomestic,
                      foreign_rate |-> raw.RateForeign])
             IN  IF made.kind = "raise"
                 THEN Raise("Validation error: " \o made.value)
                 ELSE made

\* Mutant of ValidateFrom: all-or-nothing, the first failure ends the loop.
RECURSIVE ValidateFromStopAtError(_, _, _, _)
ValidateFromStopAtError(raws, i, valid_trades, errors) ==
    IF i > Len(raws) THEN [valid_trades |-> valid_trades, errors |-> errors]
    ELSE LET r == ValidateSingleTrade(raws[i])
         IN  IF r.kind = "ok"
             THEN ValidateFromStopAtError(raws, i + 1, Append(valid_trades, r.value), errors)
             ELSE [valid_trades |-> valid_trades,
                   errors |-> Append(errors, "Trade " \o raws[i].TradeID \o ": " \o r.value)]

\* Mutant of ValidateFrom: results are inserted at the front of the lists.
RECURSIVE ValidateFromNewestFirst(_, _, _, _)
ValidateFromNewestFirst(raws, i, valid_trades, errors) ==
    IF i > Len(raws) THEN [valid_trades |-> valid_trades, errors |-> errors]
    ELSE LET r == ValidateSingleTrade(raws[i])
         IN  IF r.kind = "ok"
             THEN ValidateFromNewestFirst(raws, i + 1, <<r.value>> \o valid_trades, errors)
             ELSE ValidateFromNewestFirst(raws, i + 1, valid_trades,
                      <<"Trade " \o raws[i].TradeID \o ": " \o r.value>> \o errors)

\* The loop of validate_trades over raw_trades[i..], appending to the two lists.
RECURSIVE ValidateFrom(_, _, _, _)
ValidateFrom(raws, i, valid_trades, errors) ==
    IF i > Len(raws) THEN [valid_trades |-> valid_trades, errors |-> errors]
    ELSE LET r == ValidateSingleTrade(raws[i])
         IN  IF r.kind = "ok"
             THEN ValidateFrom(raws, i + 1, Append(valid_trades, r.value), errors)
             ELSE ValidateFrom(raws, i + 1, valid_trades,
                               Append(errors, "Trade " \o raws[i].TradeID \o ": " \o r.value))

ValidateTrades(raws) == ValidateFrom(raws, 1, <<>>, <<>>)

\* ValidationResult.is_valid
IsValid(result) == Len(result.errors) = 0

(***************************************************************************)
(* Inputs of validate_trades.  RawTrade strips its strings, so no text has *)
(* leading or trailing blanks.                                             *)
(***************************************************************************)
RawTrade(id, und, notional, ccy, spot, strike, vol, rd, rf, expiry, opt) ==
    [TradeID |-> id, Underlying |-> und, Notional |-> notional,
     NotionalCurrency |-> ccy, Spot |-> spot, Strike |-> strike, Vol |-> vol,
     RateDomestic |-> rd, RateForeign |-> rf, Expiry |-> expiry,
     OptionType |-> opt]

\* Single records over every combination of boundary values.
RawFieldProduct ==
    { RawTrade("T1", und, notional, ccy, spot, strike, vol, rd, rf, expiry, opt) :
        und \in {"usd / jpy", "EUR/CHF"},
        notional \in {0, 10},
        ccy \in {"USD", "JPY", "EUR"},
        spot \in {0, 11},
        strike \in {0, 11},
        vol \in {0, 10, 11, 51},
        rd \in {-2, -1, 10, 11},
        rf \in {-2, 10, 11},
        expiry \in {0, 1, 100, 101},
        opt \in {"Put", "INVALID"} }

\* The records the lists are built from: the valid trade of the tests and
\* one record per way of failing.
ValidRaw == RawTrade("T", "EUR/USD", 10, "USD", 11, 11, 1, 0, 0, 3, "Call")

RawSamples ==
    { ValidRaw,
      [ValidRaw EXCEPT !.Underlying = "USD / JPY", !.NotionalCurrency = "JPY",
                       !.OptionType = "put"],
      [ValidRaw EXCEPT !.Strike = -11],
      [ValidRaw EXCEPT !.OptionType = "INVALID"],
      [ValidRaw EXCEPT !.Underlying = "EUR/CHF"],
      [ValidRaw EXCEPT !.Expiry = -3],
      [ValidRaw EXCEPT !.Vol = 15],
      [ValidRaw EXCEPT !.NotionalCurrency = "EUR"] }

SeqsUpTo(S, n) == UNION { [1..k -> S] : k \in 0..n }

\* Rows get their ids from their position: T1, T2, ...
WithIds(rows) ==
    [i \in DOMAIN rows |-> [rows[i] EXCEPT !.TradeID = "T" \o ToString(i)]]

\* Single records over spellings of the option type and of the underlying.
RawSpellings ==
    { [ValidRaw EXCEPT !.TradeID = "T1", !.OptionType = opt, !.Underlying = und] :
        opt \in {"CALL", "call", "cAlL", "PUT", "pUt", "CALLS", "Straddle", ""},
        und \in {"EUR/USD", "EUR / USD", "eurusd", "gbp/usd", "USD/JPY", "aud / usd",
                 "USD CAD", "/usdchf/", "EUR\tUSD", "EUR-USD", "EURGBP", ""} }

ValidateInputs ==
    { WithIds(rows) : rows \in SeqsUpTo(RawSamples, MaxTrades) }
    \cup { <<r>> : r \in RawFieldProduct }
    \cup { <<r>> : r \in RawSpellings }

InitValidate ==
    /\ pc = "call"
    /\ raw_trades \in ValidateInputs
    /\ validation_result = None
    /\ priced_trades = None
    /\ portfolio_summary = None
    /\ config = None
    /\ output_file = None
    /\ exit_status = None
    /\ printed = <<>>

\* validator.validate_trades(raw_trades)
CallValidateTrades ==
    /\ pc = "call"
    /\ validation_result' = ValidateTrades(raw_trades)
    /\ pc' = "returned"
    /\ UNCHANGED <<printed, raw_trades, priced_trades, portfolio_summary,
                   config, output_file, exit_status>>

SpecValidate == InitValidate /\ [][CallValidateTrades]_vars

(***************************************************************************)
(* Claims about validate_trades, checked under SpecValidate.               *)
(***************************************************************************)
Returned == pc = "returned"

ErrorPrefix(raw) == "Trade " \o raw.TradeID \o ": "

\* record i of the input is in valid_trades / has an error string
AcceptedAt(i) ==
    \E j \in DOMAIN validation_result.valid_trades :
        validation_result.valid_trades[j].trade_id = raw_trades[i].TradeID
RejectedAt(i) ==
    \E j \in DOMAIN validation_result.errors :
        StartsWith(validation_result.errors[j], ErrorPrefix(raw_trades[i]))

\* C1: every raw record has exactly one outcome, a valid trade or an error
\* naming its id, so the two lists together are as long as the input, and
\* is_valid holds exactly when no record failed.
C1_OneOutcomePerRecord ==
    Returned =>
        /\ Len(validation_result.valid_trades) + Len(validation_result.errors)
               = Len(raw_trades)
        /\ \A i \in DOMAIN raw_trades : AcceptedAt(i) # RejectedAt(i)
        /\ IsValid(validation_result) <=> (\A i \in DOMAIN raw_trades : AcceptedAt(i))

\* a rejected record followed by an accepted one: 1 valid trade, 1 error
\* naming T1, is_valid false
C1_Witness ==
    /\ Returned
    /\ Len(raw_trades) = 2
    /\ raw_trades[1].Strike < 0
    /\ Len(validation_result.valid_trades) = 1
    /\ validation_result.valid_trades[1].trade_id = "T2"
    /\ Len(validation_result.errors) = 1
    /\ StartsWith(validation_result.errors[1], "Trade T1: ")
    /\ ~IsValid(validation_result)

\* matching text w whatever the case of the letters of s
LowerOf(c) ==
    IF \E i \in 1..Len(UpperLetters) : Char(UpperLetters, i) = c
    THEN LET i == CHOOSE k \in 1..Len(UpperLetters) : Char(UpperLetters, k) = c
         IN  Char(LowerLetters, i)
    ELSE c
EqualsIgnoringCase(s, w) ==
    /\ Len(s) = Len(w)
    /\ \A i \in 1..Len(w) : Char(s, i) \in {Char(w, i), LowerOf(Char(w, i))}

\* the constraints of the claim, on a raw record
MeetsConstraints(raw) ==
    /\ EqualsIgnoringCase(raw.OptionType, "CALL") \/ EqualsIgnoringCase(raw.OptionType, "PUT")
    /\ NormalizeUnderlying(raw.Underlying) \in CurrencyPair
    /\ raw.Strike > 0
    /\ raw.Notional > 0
    /\ raw.NotionalCurrency \in {"USD", "JPY"}
    /\ 0 < raw.Expiry /\ raw.Expiry <= 100
    /\ raw.Spot > 0
    /\ 0 < raw.Vol /\ raw.Vol <= 10
    /\ -1 <= raw.RateDomestic /\ raw.RateDomestic <= 10
    /\ -1 <= raw.RateForeign /\ raw.RateForeign <= 10

InputIndex(id) == CHOOSE i \in DOMAIN raw_trades : raw_trades[i].TradeID = id
ErrorIndex(msg) ==
    CHOOSE i \in DOMAIN raw_trades : StartsWith(msg, ErrorPrefix(raw_trades[i]))

\* C3: valid_trades and errors each keep the relative order of the input.
C3_OutputsInInputOrder ==
    (Returned /\ Len(raw_trades) > 1) =>
        /\ \A j, k \in DOMAIN validation_result.valid_trades :
               j < k => InputIndex(validation_result.valid_trades[j].trade_id)
                            < InputIndex(validation_result.valid_trades[k].trade_id)
        /\ \A j, k \in DOMAIN validation_result.errors :
               j < k => ErrorIndex(validation_result.errors[j])
                            < ErrorIndex(validation_result.errors[k])

C3_Witness ==
    /\ Returned
    /\ Len(raw_trades) = 2
    /\ Len(validation_result.errors) = 2
    /\ StartsWith(validation_result.errors[1], "Trade T1: Invalid OptionType")
    /\ StartsWith(validation_result.errors[2], "Trade T2: Expiry must be positive")

(***************************************************************************)
(* Python float: IEEE 754 double.  A product or a sum whose magnitude      *)
(* leaves the range of the type is inf or -inf, inf - inf and 0 * inf are  *)
(* nan, and nan propagates; none of these raises an exception.  Finite     *)
(* amounts are integers that count a fixed fraction of a unit.  FloatMax   *)
(* stands for the largest finite double (about 1.8e308) at a reduced       *)
(* range: it is the largest count of a finite amount, which for a pv       *)
(* (counting 1e-8) is 20 units.                                            *)
(***************************************************************************)
FloatMax == 2000000000

Inf == "inf"
NegInf == "-inf"
NaN == "nan"

\* math.isfinite / math.isnan
IsFinite(x) == ToString(x) \notin {ToString(Inf), ToString(NegInf), ToString(NaN)}
IsNaN(x) == ToString(x) = ToString(NaN)

\* sign of a float that is not nan
Sign(x) ==
    IF ~IsFinite(x) THEN (IF ToString(x) = ToString(Inf) THEN 1 ELSE -1)
    ELSE IF x > 0 THEN 1 ELSE IF x < 0 THEN -1 ELSE 0

Signed(sign) == IF sign > 0 THEN Inf ELSE NegInf

\* A notional (in tenths) that a ValidatedTrade accepts, the field being
\* bounded only below, and whose product with a value per unit above 2.0
\* is beyond FloatMax: what 1e308 is for a double.
LargeNotional == 100

\* a * b on floats
FloatMul(a, b) ==
    IF IsNaN(a) \/ IsNaN(b) THEN NaN
    ELSE IF ~IsFinite(a) \/ ~IsFinite(b)
    THEN (IF Sign(a) * Sign(b) = 0 THEN NaN ELSE Signed(Sign(a) * Sign(b)))
    ELSE IF b # 0 /\ Abs(a) > FloatMax \div Abs(b) THEN Signed(Sign(a) * Sign(b))
    ELSE a * b

\* a + b on floats
FloatAdd(a, b) ==
    IF IsNaN(a) \/ IsNaN(b) THEN NaN
    ELSE IF ~IsFinite(a)
    THEN (IF ~IsFinite(b) /\ Sign(a) # Sign(b) THEN NaN ELSE a)
    ELSE IF ~IsFinite(b) THEN b
    ELSE IF Abs(a + b) > FloatMax THEN Signed(Sign(a + b))
    ELSE a + b

(***************************************************************************)
(* services/aggregator.py                                                  *)
(*                                                                         *)
(* amount / spot and amount * spot are float operations: the result is the *)
(* representable value nearest to the quotient or product.  Amounts are    *)
(* whole amount units and a spot counts tenths.                            *)
(***************************************************************************)
\* n / d rounded to the nearest integer, d > 0
RoundDiv(n, d) == (n \div d) + (IF 2 * (n % d) >= d THEN 1 ELSE 0)

\* amount / spot, the quotient taken in two parts to stay within the integers
FloatDivSpot(amount, spot) ==
    IF ~IsFinite(amount) THEN amount
    ELSE FloatAdd(FloatMul(amount \div spot, 10), RoundDiv((amount % spot) * 10, spot))

\* amount * spot, the product taken in two parts likewise
FloatMulSpot(amount, spot) ==
    IF ~IsFinite(amount) THEN amount
    ELSE FloatAdd(FloatMul(amount \div 10, spot), RoundDiv((amount % 10) * spot, 10))

\* Mutant of ToReportingCurrency: JPY is turned into USD by the spot of any
\* pair.
ToReportingCurrencyAnyPair(amount, trade, reporting_ccy) ==
    LET trade_ccy == Upper(trade.notional_currency)
        rc == Upper(reporting_ccy)
    IN  IF trade_ccy = rc THEN Ok(amount)
        ELSE IF trade_ccy = "JPY" /\ rc = "USD"
        THEN Ok(FloatDivSpot(amount, trade.spot))
        ELSE IF trade.currency_pair = "USDJPY" /\ trade_ccy = "USD" /\ rc = "JPY"
        THEN Ok(FloatMulSpot(amount, trade.spot))
        ELSE Raise("Unsupported conversion " \o trade_ccy \o "->" \o rc
                   \o " for " \o trade.currency_pair)

\* Mutant of ToReportingCurrency: the two USDJPY directions are swapped.
ToReportingCurrencySwapped(amount, trade, reporting_ccy) ==
    LET trade_ccy == Upper(trade.notional_currency)
        rc == Upper(reporting_ccy)
    IN  IF trade_ccy = rc THEN Ok(amount)
        ELSE IF trade.currency_pair = "USDJPY" /\ trade_ccy = "JPY" /\ rc = "USD"
        THEN Ok(FloatMulSpot(amount, trade.spot))
        ELSE IF trade.currency_pair = "USDJPY" /\ trade_ccy = "USD" /\ rc = "JPY"
        THEN Ok(FloatDivSpot(amount, trade.spot))
        ELSE Raise("Unsupported conversion " \o trade_ccy \o "->" \o rc
                   \o " for " \o trade.currency_pair)

\* Mutant of ToReportingCurrency: an unsupported conversion counts as zero.
ToReportingCurrencyZeroFill(amount, trade, reporting_ccy) ==
    LET trade_ccy == Upper(trade.notional_currency)
        rc == Upper(reporting_ccy)
    IN  IF trade_ccy = rc THEN Ok(amount)
        ELSE IF trade.currency_pair = "USDJPY" /\ trade_ccy = "JPY" /\ rc = "USD"
        THEN Ok(FloatDivSpot(amount, trade.spot))
        ELSE IF trade.currency_pair = "USDJPY" /\ trade_ccy = "USD" /\ rc = "JPY"
        THEN Ok(FloatMulSpot(amount, trade.spot))
        ELSE Ok(0)

\* AggregationService._to_reporting_currency
ToReportingCurrency(amount, trade, reporting_ccy) ==
    LET trade_ccy == Upper(trade.notional_currency)
        rc == Upper(reporting_ccy)
    IN  IF trade_ccy = rc THEN Ok(amount)
        ELSE IF trade.currency_pair = "USDJPY" /\ trade_ccy = "JPY" /\ rc = "USD"
        THEN Ok(FloatDivSpot(amount, trade.spot))
        ELSE IF trade.currency_pair = "USDJPY" /\ trade_ccy = "USD" /\ rc = "JPY"
        THEN Ok(FloatMulSpot(amount, trade.spot))
        ELSE Raise("Unsupported conversion " \o trade_ccy \o "->" \o rc
                   \o " for " \o trade.currency_pair)

\* Mutant of AggregateFrom: a trade after the first that cannot be converted
\* is left out of the totals.
RECURSIVE AggregateFromSkipping(_, _, _, _, _, _)
AggregateFromSkipping(trades, i, total_pv, total_delta, total_vega, reporting_ccy) ==
    IF i > Len(trades)
    THEN Ok([total_pv |-> total_pv, total_delta |-> total_delta, total_vega |-> total_vega])
    ELSE LET pv == ToReportingCurrency(trades[i].pv, trades[i], reporting_ccy)
             delta == ToReportingCurrency(trades[i].delta, trades[i], reporting_ccy)
             vega == ToReportingCurrency(trades[i].vega, trades[i], reporting_ccy)
         IN  IF pv.kind = "raise" /\ i = 1 THEN pv
             ELSE IF pv.kind = "raise"
             THEN AggregateFromSkipping(trades, i + 1, total_pv, total_delta,
                                        total_vega, reporting_ccy)
             ELSE AggregateFromSkipping(trades, i + 1, FloatAdd(total_pv, pv.value),
                                        FloatAdd(total_delta, delta.value),
                                        FloatAdd(total_vega, vega.value), reporting_ccy)

\* Mutant of AggregateFrom: each trade overwrites the running totals.
RECURSIVE AggregateFromOverwrite(_, _, _, _, _, _)
AggregateFromOverwrite(trades, i, total_pv, total_delta, total_vega, reporting_ccy) ==
    IF i > Len(trades)
    THEN Ok([total_pv |-> total_pv, total_delta |-> total_delta, total_vega |-> total_vega])
    ELSE LET pv == ToReportingCurrency(trades[i].pv, trades[i], reporting_ccy)
             delta == ToReportingCurrency(trades[i].delta, trades[i], reporting_ccy)
             vega == ToReportingCurrency(trades[i].vega, trades[i], reporting_ccy)
         IN  IF pv.kind = "raise" THEN pv
             ELSE IF delta.kind = "raise" THEN delta
             ELSE IF vega.kind = "raise" THEN vega
             ELSE AggregateFromOverwrite(trades, i + 1, pv.value, delta.value,
                                         vega.value, reporting_ccy)

\* The loop of aggregate_portfolio over priced_trades[i..]: the three
\* conversions of a trade in turn, the first exception leaving the loop.
RECURSIVE AggregateFrom(_, _, _, _, _, _)
AggregateFrom(trades, i, total_pv, total_delta, total_vega, reporting_ccy) ==
    IF i > Len(trades)
    THEN Ok([total_pv |-> total_pv, total_delta |-> total_delta, total_vega |-> total_vega])
    ELSE LET pv == ToReportingCurrency(trades[i].pv, trades[i], reporting_ccy)
             delta == ToReportingCurrency(trades[i].delta, trades[i], reporting_ccy)
             vega == ToReportingCurrency(trades[i].vega, trades[i], reporting_ccy)
         IN  IF pv.kind = "raise" THEN pv
             ELSE IF delta.kind = "raise" THEN delta
             ELSE IF vega.kind = "raise" THEN vega
             ELSE AggregateFrom(trades, i + 1, FloatAdd(total_pv, pv.value),
                                FloatAdd(total_delta, delta.value),
                                FloatAdd(total_vega, vega.value), reporting_ccy)

\* date.today()
Today == "today"

\* AggregationService.aggregate_portfolio: a PortfolioSummary, or the
\* ValueError of the first conversion that fails.
AggregatePortfolio(trades, valuation_date, reporting_ccy) ==
    LET totals == AggregateFrom(trades, 1, 0, 0, 0, reporting_ccy)
    IN  IF totals.kind = "raise" THEN totals
        ELSE Ok([total_trades |-> Len(trades),
                 total_pv |-> totals.value.total_pv,
                 total_delta |-> totals.value.total_delta,
                 total_vega |-> totals.value.total_vega,
                 valuation_date |-> IF valuation_date = None THEN Today
                                    ELSE valuation_date,
                 reporting_currency |-> reporting_ccy])

(***************************************************************************)
(* Inputs of aggregate_portfolio: PricedTrade puts no constraint on its    *)
(* fields, so any currency text may arrive.                                *)
(***************************************************************************)
PricedTrade(id, pair, ccy, m) ==
    [trade_id |-> id, currency_pair |-> pair, option_type |-> "CALL",
     strike |-> 11, notional |-> 10, notional_currency |-> ccy, spot |-> m[1],
     time_to_expiry |-> 5, volatility |-> 1,
     pv |-> m[2], delta |-> m[3], vega |-> m[4]]

\* spot, pv, delta, vega: the two trades of the tests, and the spec's
\* 1,000,000 JPY at a spot of 110.0
Metrics == { <<1085, 25000, 500000, 3000>>, <<1270, -5000, -250000, 1500>>,
             <<1100, 1000000, 640000, 7>> }

PricedSamples ==
    { PricedTrade("T", pair, ccy, m) :
        pair \in {"USDJPY", "EURUSD"},
        ccy \in {"USD", "jpy", "EUR"},
        m \in Metrics }

PricedWithIds(rows) ==
    [i \in DOMAIN rows |-> [rows[i] EXCEPT !.trade_id = "T" \o ToString(i)]]

InitAggregate ==
    /\ pc = "call"
    /\ raw_trades = None
    /\ validation_result = None
    /\ priced_trades \in { PricedWithIds(rows) : rows \in SeqsUpTo(PricedSamples, MaxTrades) }
    /\ portfolio_summary = None
    /\ config \in { [valuation_date |-> d, reporting_currency |-> c] :
                      d \in {None, "2025-01-15"}, c \in {"USD", "JPY", "usd"} }
    /\ output_file = None
    /\ exit_status = None
    /\ printed = <<>>

\* aggregator.aggregate_portfolio(priced_trades, valuation_date, reporting_currency)
CallAggregatePortfolio ==
    /\ pc = "call"
    /\ portfolio_summary' = AggregatePortfolio(priced_trades, config.valuation_date,
                                               config.reporting_currency)
    /\ pc' = "returned"
    /\ UNCHANGED <<printed, raw_trades, validation_result, priced_trades, config,
                   output_file, exit_status>>

SpecAggregate == InitAggregate /\ [][CallAggregatePortfolio]_vars

(***************************************************************************)
(* Claims about aggregate_portfolio, checked under SpecAggregate.          *)
(***************************************************************************)
\* the same currency code, whatever the case of its letters
SameCurrency(a, b) == Upper(a) = Upper(b)

JpyToUsd(t, rc) ==
    t.currency_pair = "USDJPY" /\ SameCurrency(t.notional_currency, "JPY")
        /\ SameCurrency(rc, "USD")
UsdToJpy(t, rc) ==
    t.currency_pair = "USDJPY" /\ SameCurrency(t.notional_currency, "USD")
        /\ SameCurrency(rc, "JPY")
Convertible(t, rc) ==
    SameCurrency(t.notional_currency, rc) \/ JpyToUsd(t, rc) \/ UsdToJpy(t, rc)

\* q is amount / spot, and p is amount * spot, to the nearest amount unit
IsQuotientBySpot(q, amount, spot) == 2 * Abs(q * spot - amount * 10) <= spot
IsProductBySpot(p, amount, spot) == 2 * Abs(p * 10 - amount * spot) <= 10

\* the claim's rule for one metric of one trade
ConvertedAs(out, amount, t, rc) ==
    IF SameCurrency(t.notional_currency, rc) THEN out = amount
    ELSE IF JpyToUsd(t, rc) THEN IsQuotientBySpot(out, amount, t.spot)
    ELSE IsProductBySpot(out, amount, t.spot)

\* C5: for a convertible trade each of pv, delta and vega is passed through
\* when the currencies agree, divided by the trade's spot for JPY reported in
\* USD on USDJPY, and multiplied by it for USD reported in JPY on USDJPY.
C5_ConversionRule ==
    (Returned /\ Len(priced_trades) = 1
        /\ Convertible(priced_trades[1], config.reporting_currency)) =>
        /\ portfolio_summary.kind = "ok"
        /\ ConvertedAs(portfolio_summary.value.total_pv, priced_trades[1].pv,
                       priced_trades[1], config.reporting_currency)
        /\ ConvertedAs(portfolio_summary.value.total_delta, priced_trades[1].delta,
                       priced_trades[1], config.reporting_currency)
        /\ ConvertedAs(portfolio_summary.value.total_vega, priced_trades[1].vega,
                       priced_trades[1], config.reporting_currency)

\* pv 1,000,000 JPY at spot 110 reported in USD: about 9090.91
C5_Witness ==
    /\ Returned
    /\ Len(priced_trades) = 1
    /\ priced_trades[1].currency_pair = "USDJPY"
    /\ priced_trades[1].notional_currency = "jpy"
    /\ priced_trades[1].spot = 1100
    /\ priced_trades[1].pv = 1000000
    /\ config.reporting_currency = "USD"
    /\ portfolio_summary.kind = "ok"
    /\ portfolio_summary.value.total_pv = 9091

Unsupported(i) == ~Convertible(priced_trades[i], config.reporting_currency)
FirstUnsupported ==
    CHOOSE i \in DOMAIN priced_trades :
        Unsupported(i) /\ \A k \in 1..(i - 1) : ~Unsupported(k)

\* C6: when some trade is not convertible, aggregate_portfolio raises, returns
\* no summary, and the error names the from-currency, the to-currency and the
\* pair of the first such trade in input order.
C6_UnsupportedConversionFails ==
    (Returned /\ \E i \in DOMAIN priced_trades : Unsupported(i)) =>
        /\ portfolio_summary.kind = "raise"
        /\ portfolio_summary.value =
               "Unsupported conversion "
                   \o Upper(priced_trades[FirstUnsupported].notional_currency)
                   \o "->" \o Upper(config.reporting_currency)
                   \o " for " \o priced_trades[FirstUnsupported].currency_pair

\* two unsupported trades: the error is the first one's
C6_Witness ==
    /\ Returned
    /\ Len(priced_trades) = 2
    /\ priced_trades[1].notional_currency = "EUR"
    /\ priced_trades[1].currency_pair = "USDJPY"
    /\ priced_trades[2].notional_currency = "jpy"
    /\ priced_trades[2].currency_pair = "EURUSD"
    /\ config.reporting_currency = "USD"
    /\ portfolio_summary = Raise("Unsupported conversion EUR->USD for USDJPY")

\* the sum over trades 1..n of one converted metric, by the claim's rule
RECURSIVE SumsTo(_, _, _)
SumsTo(total, n, metric) ==
    IF n = 0 THEN total = 0
    ELSE LET t == priced_trades[n]
             rc == config.reporting_currency
             amount == IF metric = "pv" THEN t.pv
                       ELSE IF metric = "delta" THEN t.delta ELSE t.vega
             c == IF SameCurrency(t.notional_currency, rc) THEN amount
                  ELSE IF JpyToUsd(t, rc) THEN RoundDiv(amount * 10, t.spot)
                  ELSE RoundDiv(amount * t.spot, 10)
         IN  SumsTo(total - c, n - 1, metric)

\* C7: when every trade is convertible the summary counts the trades and
\* each total is the sum of the converted metric; an empty list gives 0 trades
\* and three zero totals for any reporting currency.
C7_TotalsAreSums ==
    (Returned /\ \A i \in DOMAIN priced_trades : ~Unsupported(i)) =>
        /\ portfolio_summary.kind = "ok"
        /\ portfolio_summary.value.total_trades = Len(priced_trades)
        /\ SumsTo(portfolio_summary.value.total_pv, Len(priced_trades), "pv")
        /\ SumsTo(portfolio_summary.value.total_delta, Len(priced_trades), "delta")
        /\ SumsTo(portfolio_summary.value.total_vega, Len(priced_trades), "vega")
        /\ priced_trades = <<>> =>
               /\ portfolio_summary.value.total_pv = 0
               /\ portfolio_summary.value.total_delta = 0
               /\ portfolio_summary.value.total_vega = 0

\* the USD trades of the tests: pv 25000 and -5000 give 20000
C7_Witness ==
    /\ Returned
    /\ Len(priced_trades) = 2
    /\ priced_trades[1].pv = 25000 /\ priced_trades[2].pv = -5000
    /\ priced_trades[1].notional_currency = "USD"
    /\ priced_trades[2].notional_currency = "USD"
    /\ config.reporting_currency = "USD"
    /\ portfolio_summary.kind = "ok"
    /\ portfolio_summary.value.total_trades = 2
    /\ portfolio_summary.value.total_pv = 20000
    /\ portfolio_summary.value.total_delta = 250000
    /\ portfolio_summary.value.total_vega = 4500

(***************************************************************************)
(* services/pricing_engine.py                                              *)
(*                                                                         *)
(* Fixed-point scales.  ln, sqrt, exp, the normal cdf and pdf count        *)
(* thousandths; d1 and d2 count tenths.  Products are exact integers, so   *)
(* pv counts 1e-8 (spot x discount x cdf x notional) and delta counts 1e-7 *)
(* (discount x cdf x notional).                                            *)
(***************************************************************************)
\* np.log(S / K), in thousandths, for the spots and strikes of the inputs.
LogOf(x) == CASE x = 10 -> 0 [] x = 11 -> 95 [] x = 50 -> 1609

Log(S, K) == LogOf(S) - LogOf(K)

\* np.sqrt(T), in thousandths, for the expiries of the inputs.
Sqrt(T) == CASE T = 1 -> 316 [] T = 3 -> 548 [] T = 10 -> 1000 [] T = 100 -> 3162

\* np.exp(x), in thousandths; x = -r * T counts hundredths.
Exp(x) ==
    CASE x = 100 -> 2718 [] x = 10 -> 1105 [] x = 3 -> 1030 [] x = 1 -> 1010
      [] x = 0 -> 1000
      [] x = -1 -> 990 [] x = -3 -> 970 [] x = -10 -> 905 [] x = -100 -> 368

\* norm.cdf on 0.0, 0.1, ..., 3.2, in thousandths.
CdfTable ==
    << 500, 540, 579, 618, 655, 691, 726, 758, 788, 816, 841,
       864, 885, 903, 919, 933, 945, 955, 964, 971, 977,
       982, 986, 989, 992, 994, 995, 997, 997, 998, 999, 999, 999 >>

\* norm.cdf(d), d in tenths.  For d > 0 it is 1 - cdf(-d).  In double
\* precision it is exactly 1.0 from d = 8.3 on and exactly 0.0 below about
\* d = -38; in between the lower tail is positive but under a thousandth.
RECURSIVE NormCdf(_)
NormCdf(d) ==
    IF d >= 83 THEN 1000
    ELSE IF d >= Len(CdfTable) THEN 999
    ELSE IF d >= 0 THEN CdfTable[d + 1]
    ELSE IF d > -83 THEN 1000 - NormCdf(-d)
    ELSE IF d > -390 THEN 1
    ELSE 0

\* norm.pdf on 0.0, 0.1, ..., 3.6, in thousandths.
PdfTable ==
    << 399, 397, 391, 381, 368, 352, 333, 312, 290, 266, 242,
       218, 194, 171, 150, 130, 111, 94, 79, 66, 54,
       44, 35, 28, 22, 18, 14, 10, 8, 6, 4, 3, 2, 2, 1, 1, 1 >>

\* norm.pdf(d), d in tenths: positive until exp underflows to 0.0.
NormPdf(d) ==
    IF Abs(d) < Len(PdfTable) THEN PdfTable[Abs(d) + 1]
    ELSE IF Abs(d) < 390 THEN 1
    ELSE 0

\* _calculate_d1_d2: <<d1, d2>> in tenths.
\* The numerator counts 1/2000, the denominator sigma * sqrt(T) 1/10000.
CalculateD1D2(trade) ==
    LET S == trade.spot
        K == trade.strike
        T == trade.time_to_expiry
        r_d == trade.domestic_rate
        r_f == trade.foreign_rate
        sigma == trade.volatility
        d1 == RoundDiv(50 * (2 * Log(S, K) + (20 * (r_d - r_f) + sigma * sigma) * T),
                       sigma * Sqrt(T))
        d2 == d1 - RoundDiv(sigma * Sqrt(T), 1000)
    IN  <<d1, d2>>

\* Mutant of CalculatePV: the put is priced with N(d2) and N(d1).
CalculatePVPutUnreflected(trade) ==
    LET S == trade.spot
        K == trade.strike
        T == trade.time_to_expiry
        N == trade.notional
        d == CalculateD1D2(trade)
        df_domestic == Exp(-trade.domestic_rate * T)
        df_foreign == Exp(-trade.foreign_rate * T)
        pv_per_unit ==
            IF trade.option_type = "CALL"
            THEN S * df_foreign * NormCdf(d[1]) - K * df_domestic * NormCdf(d[2])
            ELSE K * df_domestic * NormCdf(d[2]) - S * df_foreign * NormCdf(d[1])
    IN  pv_per_unit * N

\* _calculate_pv
CalculatePV(trade) ==
    LET S == trade.spot
        K == trade.strike
        T == trade.time_to_expiry
        r_d == trade.domestic_rate
        r_f == trade.foreign_rate
        N == trade.notional
        d == CalculateD1D2(trade)
        df_domestic == Exp(-r_d * T)
        df_foreign == Exp(-r_f * T)
        pv_per_unit ==
            IF trade.option_type = "CALL"
            THEN S * df_foreign * NormCdf(d[1]) - K * df_domestic * NormCdf(d[2])
            ELSE K * df_domestic * NormCdf(-d[2]) - S * df_foreign * NormCdf(-d[1])
    IN  FloatMul(pv_per_unit, N)

\* Mutant of CalculateDelta: the put's delta keeps the call's sign.
CalculateDeltaUnsigned(trade) ==
    Exp(-trade.foreign_rate * trade.time_to_expiry)
        * NormCdf(CalculateD1D2(trade)[1]) * trade.notional

\* _calculate_delta; norm.cdf(d1) - 1 is NormCdf - 1000 in thousandths.
CalculateDelta(trade) ==
    LET T == trade.time_to_expiry
        r_f == trade.foreign_rate
        N == trade.notional
        d1 == CalculateD1D2(trade)[1]
        df_foreign == Exp(-r_f * T)
        delta_per_unit ==
            IF trade.option_type = "CALL"
            THEN df_foreign * NormCdf(d1)
            ELSE df_foreign * (NormCdf(d1) - 1000)
    IN  FloatMul(delta_per_unit, N)

\* Mutant of CalculateVega: a put's vega takes the sign of its delta.
CalculateVegaSigned(trade) ==
    (IF trade.option_type = "CALL" THEN 1 ELSE -1)
        * RoundDiv(RoundDiv(trade.spot
                            * Exp(-trade.foreign_rate * trade.time_to_expiry)
                            * NormPdf(CalculateD1D2(trade)[1]), 1000)
                   * Sqrt(trade.time_to_expiry), 1000)
        * trade.notional

\* _calculate_vega.  S * df_foreign * pdf is rounded to 1e-4, its product
\* with sqrt(T) again to 1e-4; the result counts 1e-7 after "* N / 100".
CalculateVega(trade) ==
    LET S == trade.spot
        T == trade.time_to_expiry
        r_f == trade.foreign_rate
        N == trade.notional
        d1 == CalculateD1D2(trade)[1]
        df_foreign == Exp(-r_f * T)
        vega_per_unit ==
            RoundDiv(RoundDiv(S * df_foreign * NormPdf(d1), 1000) * Sqrt(T), 1000)
    IN  FloatMul(vega_per_unit, N)

\* Mutant of PricePortfolio: strike and spot change places in the result.
PricePortfolioSwapped(trades) ==
    [i \in DOMAIN trades |->
        [trade_id |-> trades[i].trade_id,
         currency_pair |-> trades[i].currency_pair,
         option_type |-> trades[i].option_type,
         strike |-> trades[i].spot,
         notional |-> trades[i].notional,
         notional_currency |-> trades[i].notional_currency,
         spot |-> trades[i].strike,
         time_to_expiry |-> trades[i].time_to_expiry,
         volatility |-> trades[i].volatility,
         pv |-> CalculatePV(trades[i]),
         delta |-> CalculateDelta(trades[i]),
         vega |-> CalculateVega(trades[i])]]

\* Mutant of PricePortfolio: the results are returned newest first.
PricePortfolioNewestFirst(trades) ==
    [i \in DOMAIN trades |->
        [trade_id |-> trades[Len(trades) + 1 - i].trade_id,
         currency_pair |-> trades[Len(trades) + 1 - i].currency_pair,
         option_type |-> trades[Len(trades) + 1 - i].option_type,
         strike |-> trades[Len(trades) + 1 - i].strike,
         notional |-> trades[Len(trades) + 1 - i].notional,
         notional_currency |-> trades[Len(trades) + 1 - i].notional_currency,
         spot |-> trades[Len(trades) + 1 - i].spot,
         time_to_expiry |-> trades[Len(trades) + 1 - i].time_to_expiry,
         volatility |-> trades[Len(trades) + 1 - i].volatility,
         pv |-> CalculatePV(trades[Len(trades) + 1 - i]),
         delta |-> CalculateDelta(trades[Len(trades) + 1 - i]),
         vega |-> CalculateVega(trades[Len(trades) + 1 - i])]]

\* price_portfolio
PricePortfolio(trades) ==
    [i \in DOMAIN trades |->
        [trade_id |-> trades[i].trade_id,
         currency_pair |-> trades[i].currency_pair,
         option_type |-> trades[i].option_type,
         strike |-> trades[i].strike,
         notional |-> trades[i].notional,
         notional_currency |-> trades[i].notional_currency,
         spot |-> trades[i].spot,
         time_to_expiry |-> trades[i].time_to_expiry,
         volatility |-> trades[i].volatility,
         pv |-> CalculatePV(trades[i]),
         delta |-> CalculateDelta(trades[i]),
         vega |-> CalculateVega(trades[i])]]

(***************************************************************************)
(* Inputs of price_portfolio: validated trades on a grid that spans the    *)
(* permitted ranges (rates from -0.1, expiry up to 10.0, volatility up to  *)
(* 1.0) and strikes far enough from spot for the cdf to saturate.          *)
(***************************************************************************)
ValidatedTrade(id, opt, strike, notional, expiry, spot, vol, rd, rf) ==
    [trade_id |-> id, currency_pair |-> "EURUSD", option_type |-> opt,
     strike |-> strike, notional |-> notional, notional_currency |-> "USD",
     time_to_expiry |-> expiry, spot |-> spot, volatility |-> vol,
     domestic_rate |-> rd, foreign_rate |-> rf]

\* d1 and d2 are where the thousandths of the cdf table tell the double's
\* value: off the stretch where the lower tail is positive but below 0.001.
TailResolved(trade) ==
    \A d \in { CalculateD1D2(trade)[1], CalculateD1D2(trade)[2] } :
        Abs(d) < 83 \/ Abs(d) >= 390

PricingGrid(id, opt) ==
    { t \in { ValidatedTrade(id, opt, strike, notional, expiry, spot, vol, rd, rf) :
                strike \in {10, 11, 50}, notional \in {5, 10},
                expiry \in {1, 10, 100}, spot \in {10, 11, 50},
                vol \in {1, 5, 10}, rd \in {-1, 0, 1}, rf \in {-1, 0, 1} } :
        NewValidatedTrade(t).kind = "ok" /\ TailResolved(t) }

WithOptionType(trade, id, opt) ==
    [trade EXCEPT !.trade_id = id, !.option_type = opt]

\* A put followed by a call that differs from it in notional and, mostly,
\* in strike and spot.
UnrelatedPairs ==
    LET Plain(t) ==
            /\ t.domestic_rate = 0 /\ t.foreign_rate = 0
            /\ t.volatility = 5 /\ t.time_to_expiry = 10
    IN  { <<t, u>> :
            t \in { x \in PricingGrid("T1", "PUT") : Plain(x) /\ x.notional = 5 },
            u \in { x \in PricingGrid("T2", "CALL") : Plain(x) /\ x.notional = 10 } }

\* Single trades of either type, a call with the put that matches it,
\* unrelated pairs, and the empty portfolio.
PricingInputs ==
    { <<t>> : t \in PricingGrid("T1", "CALL") \cup PricingGrid("T1", "PUT") }
    \cup { <<t, WithOptionType(t, "T2", "PUT")>> : t \in PricingGrid("T1", "CALL") }
    \cup UnrelatedPairs
    \cup { <<>> }

InitPrice ==
    /\ pc = "call"
    /\ raw_trades = None
    /\ validation_result \in
         { [valid_trades |-> trades, errors |-> <<>>] : trades \in PricingInputs }
    /\ priced_trades = None
    /\ portfolio_summary = None
    /\ config = None
    /\ output_file = None
    /\ exit_status = None
    /\ printed = <<>>

\* pricing_engine.price_portfolio(validated_trades)
CallPricePortfolio ==
    /\ pc = "call"
    /\ priced_trades' = PricePortfolio(validation_result.valid_trades)
    /\ pc' = "returned"
    /\ UNCHANGED <<printed, raw_trades, validation_result, portfolio_summary,
                   config, output_file, exit_status>>

SpecPrice == InitPrice /\ [][CallPricePortfolio]_vars

\* The trades of the grid at a large notional, which the field constraints
\* admit as they admit the notionals of the grid.
LargeNotionalGrid ==
    { t \in { [u EXCEPT !.notional = LargeNotional] :
                u \in PricingGrid("T1", "CALL") \cup PricingGrid("T1", "PUT") } :
        NewValidatedTrade(t).kind = "ok" }

InitPriceLargeNotional ==
    /\ pc = "call"
    /\ raw_trades = None
    /\ validation_result \in
         { [valid_trades |-> <<t>>, errors |-> <<>>] : t \in LargeNotionalGrid }
    /\ priced_trades = None
    /\ portfolio_summary = None
    /\ config = None
    /\ output_file = None
    /\ exit_status = None
    /\ printed = <<>>

SpecPriceLargeNotional == InitPriceLargeNotional /\ [][CallPricePortfolio]_vars

\* discount x cdf x notional at cdf = 1: the amount `bound' in delta's unit.
DeltaUnits(discount, notional) == discount * 1000 * notional

InputOf(i) == validation_result.valid_trades[i]

DiscountedNotional(i) ==
    DeltaUnits(Exp(-InputOf(i).foreign_rate * InputOf(i).time_to_expiry),
               InputOf(i).notional)

PvUnits(amount) == amount * 1000

\* notional x (S exp(-r_f T) - K exp(-r_d T)) of the trade at i, in pv's unit
ParityAmount(i) ==
    LET t == InputOf(i)
    IN  PvUnits(t.notional
                * (t.spot * Exp(-t.foreign_rate * t.time_to_expiry)
                   - t.strike * Exp(-t.domestic_rate * t.time_to_expiry)))

WithinRelTol(a, b) == Abs(a - b) <= Abs(b) \div 1000000

MatchedPair ==
    /\ Len(validation_result.valid_trades) = 2
    /\ InputOf(1).option_type = "CALL"
    /\ InputOf(2) = WithOptionType(InputOf(1), InputOf(2).trade_id, "PUT")

Num(n) == [text |-> "", value |-> n]
Text(s) == [text |-> s, value |-> 0]

IsText(cell) == cell.text # ""

\* float(cell)
Float(cell) ==
    IF IsText(cell)
    THEN Raise("could not convert string to float: '" \o cell.text \o "'")
    ELSE Ok(cell.value)

\* str.strip(): blanks off both ends
RECURSIVE Strip(_)
Strip(s) ==
    IF Len(s) > 0 /\ Char(s, 1) = " " THEN Strip(SubSeq(s, 2, Len(s)))
    ELSE IF Len(s) > 0 /\ Char(s, Len(s)) = " " THEN Strip(SubSeq(s, 1, Len(s) - 1))
    ELSE s

\* The float() conversions of a row, in the order of RawTrade's arguments.
FloatColumns ==
    <<"Notional", "Spot", "Strike", "Vol", "RateDomestic", "RateForeign", "Expiry">>

\* RawTrade(...) of one row, or the first conversion error.
ParseRow(row) ==
    LET failing == { k \in DOMAIN FloatColumns : IsText(row[FloatColumns[k]]) }
    IN  IF failing # {}
        THEN Float(row[FloatColumns[CHOOSE k \in failing : \A j \in failing : k <= j]])
        ELSE Ok(RawTrade(row.TradeID, Strip(row.Underlying), row.Notional.value,
                         Upper(Strip(row.NotionalCurrency)), row.Spot.value,
                         row.Strike.value, row.Vol.value, row.RateDomestic.value,
                         row.RateForeign.value, row.Expiry.value,
                         Upper(Strip(row.OptionType))))

\* The loop of load_from_excel over rows[i..]; row i is sheet row i + 1.
RECURSIVE LoadFrom(_, _, _)
LoadFrom(rows, i, raws) ==
    IF i > Len(rows) THEN Ok(raws)
    ELSE LET trade == ParseRow(rows[i])
         IN  IF trade.kind = "raise"
             THEN Raise("Error parsing row " \o ToString(i + 1) \o ": " \o trade.value)
             ELSE LoadFrom(rows, i + 1, Append(raws, trade.value))

\* load_from_excel on a file that exists
LoadFromExcel(file) ==
    IF ~file.has_columns
    THEN Raise("Missing required columns")
    ELSE LoadFrom(file.rows, 1, <<>>)

(***************************************************************************)
(* services/output_writer.py                                               *)
(***************************************************************************)
\* round(x, 2) of an amount counting 1/unit: the result counts hundredths.
\* inf and nan round to themselves.
Round2(x, unit) == IF ~IsFinite(x) THEN x ELSE RoundDiv(x, unit \div 100)

\* write_results: the two sheets of the workbook at `path'.
WriteResults(trades, summary, path) ==
    [path |-> path,
     Trade_Results |->
        [i \in DOMAIN trades |->
            [TradeID |-> trades[i].trade_id,
             CurrencyPair |-> trades[i].currency_pair,
             OptionType |-> trades[i].option_type,
             Strike |-> trades[i].strike,
             Notional |-> trades[i].notional,
             NotionalCurrency |-> trades[i].notional_currency,
             Spot |-> trades[i].spot,
             TimeToExpiry |-> trades[i].time_to_expiry,
             Volatility |-> trades[i].volatility,
             PV |-> Round2(trades[i].pv, 100000000),
             Delta |-> Round2(trades[i].delta, 10000000),
             Vega |-> Round2(trades[i].vega, 10000000)]],
     Portfolio_Summary |->
        [total_trades |-> summary.total_trades,
         total_pv |-> Round2(summary.total_pv, 100000000),
         total_delta |-> Round2(summary.total_delta, 10000000),
         total_vega |-> Round2(summary.total_vega, 10000000),
         reporting_currency |-> summary.reporting_currency,
         valuation_date |-> summary.valuation_date]]

(***************************************************************************)
(* main.py: main() and FXOptionsRiskAggregator.run().                      *)
(*                                                                         *)
(* pc follows the run: start, loaded, validated, priced, aggregated,       *)
(* written, and then done (main returned) or exited (sys.exit).            *)
(***************************************************************************)
Row(id, und, notional, ccy, spot, strike, vol, rd, rf, expiry, opt) ==
    [TradeID |-> id, Underlying |-> und, Notional |-> notional,
     NotionalCurrency |-> ccy, Spot |-> Num(spot), Strike |-> strike,
     Vol |-> Num(vol), RateDomestic |-> Num(rd), RateForeign |-> Num(rf),
     Expiry |-> Num(expiry), OptionType |-> opt]

\* Rows of a sheet: four valid ones (the second converts JPY to USD on
\* USD/JPY, the third holds JPY on EUR/USD), two that fail validation and
\* one that fails to parse; and a call and a put, both valid, of a notional
\* for which notional * 4.0, their pv, is beyond the finite floats.
SheetRows ==
    { Row("T", " EUR/USD", Num(10), "usd ", 11, Num(11), 1, 0, 0, 3, "Call"),
      Row("T", "USD/JPY", Num(10), "jpy", 11, Num(10), 1, 1, 0, 10, "put"),
      Row("T", "EUR/USD", Num(10), "JPY", 11, Num(11), 1, 0, 0, 3, "Call"),
      Row("T", "gbp / usd", Num(5), "USD", 10, Num(11), 5, 1, -1, 1, "PUT"),
      Row("T", "EUR/USD", Num(10), "USD", 11, Num(-11), 1, 0, 0, 3, "Call"),
      Row("T", "EUR/USD", Num(10), "USD", 11, Num(11), 1, 0, 0, 3, "Straddle"),
      Row("T", "EUR/USD", Text("n/a"), "USD", 11, Num(11), 1, 0, 0, 3, "Call"),
      Row("T", "EUR/USD", Num(LargeNotional), "USD", 50, Num(10), 1, 0, 0, 1, "CALL"),
      Row("T", "EUR/USD", Num(LargeNotional), "USD", 10, Num(50), 1, 0, 0, 1, "PUT") }

\* Sheets of 9 to MaxSheetRows rows that fail validation, by the strike and
\* by the option type in turn, all of them or all but the third.
MaxSheetRows == 12

LongSheets ==
    { [i \in 1..k |->
          IF i = 3 /\ third_valid
          THEN Row("T", "EUR/USD", Num(10), "USD", 11, Num(11), 1, 0, 0, 3, "Call")
          ELSE IF i % 2 = 1
          THEN Row("T", "EUR/USD", Num(10), "USD", 11, Num(-11), 1, 0, 0, 3, "Call")
          ELSE Row("T", "EUR/USD", Num(10), "USD", 11, Num(11), 1, 0, 0, 3, "Straddle")] :
        k \in 9..MaxSheetRows, third_valid \in BOOLEAN }

InputFiles ==
    { [has_columns |-> TRUE, rows |-> WithIds(rows)] :
        rows \in SeqsUpTo(SheetRows, MaxTrades) \cup LongSheets }
    \cup { [has_columns |-> FALSE, rows |-> <<>>] }

\* args.output, or None
OutputArgs == {None, "out.xlsx"}

\* After main's Config(): __post_init__ has set the valuation date.
Init ==
    /\ pc = "start"
    /\ raw_trades = None
    /\ validation_result = None
    /\ priced_trades = None
    /\ portfolio_summary = None
    /\ config = [valuation_date |-> Today, reporting_currency |-> "USD"]
    /\ output_file = None
    /\ exit_status = None
    /\ printed = <<>>

\* sys.exit(1)
Exit1 == pc' = "exited" /\ exit_status' = 1

\* main: the input file does not exist
MainInputMissing ==
    /\ pc = "start"
    /\ Exit1
    /\ UNCHANGED <<printed, raw_trades, validation_result, priced_trades,
                   portfolio_summary, config, output_file>>

\* run, step 1: load_from_excel; its exception ends in main's handler.
RunLoad ==
    /\ pc = "start"
    /\ \E file \in InputFiles :
          LET loaded == LoadFromExcel(file)
          IN  IF loaded.kind = "raise"
              THEN Exit1 /\ UNCHANGED raw_trades
              ELSE pc' = "loaded" /\ raw_trades' = loaded.value /\ UNCHANGED exit_status
    /\ UNCHANGED <<printed, validation_result, priced_trades, portfolio_summary,
                   config, output_file>>

\* errors[:10]
MaxShown == 10

\* Mutant of ValidationReport: every error is printed.
ValidationReportUnbounded(errors) ==
    <<"Validation failed with " \o ToString(Len(errors)) \o " errors:">>
    \o [i \in 1..Len(errors) |-> "  - " \o errors[i]]

\* What run prints when validation failed: the count, the first 10 errors
\* and, beyond 10, how many more there are.
ValidationReport(errors) ==
    <<"Validation failed with " \o ToString(Len(errors)) \o " errors:">>
    \o [i \in 1..(IF Len(errors) < MaxShown THEN Len(errors) ELSE MaxShown) |->
           "  - " \o errors[i]]
    \o (IF Len(errors) > MaxShown
        THEN <<"  ... and " \o ToString(Len(errors) - MaxShown) \o " more errors">>
        ELSE <<>>)

\* Mutant of RunValidate: the valid part of the batch goes on to pricing.
RunValidateKeepGoing ==
    /\ pc = "loaded"
    /\ validation_result' = ValidateTrades(raw_trades)
    /\ pc' = "validated"
    /\ UNCHANGED <<printed, raw_trades, priced_trades, portfolio_summary, config,
                   output_file, exit_status>>

\* run, step 2: validate_trades, and sys.exit(1) when it recorded an error.
RunValidate ==
    /\ pc = "loaded"
    /\ validation_result' = ValidateTrades(raw_trades)
    /\ IF ~IsValid(validation_result')
       THEN printed' = ValidationReport(validation_result'.errors) /\ Exit1
       ELSE pc' = "validated" /\ UNCHANGED <<exit_status, printed>>
    /\ UNCHANGED <<raw_trades, priced_trades, portfolio_summary, config,
                   output_file>>

\* run, step 3: price_portfolio
RunPrice ==
    /\ pc = "validated"
    /\ priced_trades' = PricePortfolio(validation_result.valid_trades)
    /\ pc' = "priced"
    /\ UNCHANGED <<printed, raw_trades, validation_result, portfolio_summary, config,
                   output_file, exit_status>>

\* Mutant of RunAggregate: a failed aggregation is replaced by a summary in
\* which the unsupported conversions count as zero.
RunAggregateSubstituting ==
    /\ pc = "priced"
    /\ LET summary == AggregatePortfolio(priced_trades, config.valuation_date,
                                         config.reporting_currency)
       IN  portfolio_summary' =
               IF summary.kind = "raise"
               THEN [total_trades |-> Len(priced_trades), total_pv |-> 0,
                     total_delta |-> 0, total_vega |-> 0,
                     valuation_date |-> config.valuation_date,
                     reporting_currency |-> config.reporting_currency]
               ELSE summary.value
    /\ pc' = "aggregated"
    /\ UNCHANGED <<printed, raw_trades, validation_result, priced_trades, config,
                   output_file, exit_status>>

\* Mutant of RunAggregate: the aggregator converts the priced trades in
\* place, leaving them in the reporting currency.
RunAggregateInPlace ==
    /\ pc = "priced"
    /\ LET summary == AggregatePortfolio(priced_trades, config.valuation_date,
                                         config.reporting_currency)
       IN  IF summary.kind = "raise"
           THEN Exit1 /\ UNCHANGED <<portfolio_summary, priced_trades>>
           ELSE /\ portfolio_summary' = summary.value
                /\ priced_trades' =
                      [i \in DOMAIN priced_trades |->
                          [priced_trades[i] EXCEPT
                              !.pv = ToReportingCurrency(priced_trades[i].pv,
                                         priced_trades[i],
                                         config.reporting_currency).value,
                              !.notional_currency = config.reporting_currency]]
                /\ pc' = "aggregated"
                /\ UNCHANGED exit_status
    /\ UNCHANGED <<printed, raw_trades, validation_result, config, output_file>>

\* run, step 4: aggregate_portfolio; its ValueError leaves run and ends in
\* main's handler, which exits with 1.
RunAggregate ==
    /\ pc = "priced"
    /\ LET summary == AggregatePortfolio(priced_trades, config.valuation_date,
                                         config.reporting_currency)
       IN  IF summary.kind = "raise"
           THEN Exit1 /\ UNCHANGED portfolio_summary
           ELSE /\ portfolio_summary' = summary.value
                /\ pc' = "aggregated"
                /\ UNCHANGED exit_status
    /\ UNCHANGED <<printed, raw_trades, validation_result, priced_trades, config,
                   output_file>>

\* Mutant of RunWrite: the writer replaces the summary by one of rounded
\* totals.
RunWriteNewSummary ==
    /\ pc = "aggregated"
    /\ \E output \in OutputArgs :
          output_file' = WriteResults(priced_trades, portfolio_summary,
                             IF output = None THEN "trades_results.xlsx" ELSE output)
    /\ portfolio_summary' =
          [portfolio_summary EXCEPT !.total_pv = Round2(@, 100000000),
                                    !.total_delta = Round2(@, 10000000),
                                    !.total_vega = Round2(@, 10000000)]
    /\ pc' = "written"
    /\ UNCHANGED <<printed, raw_trades, validation_result, priced_trades, config, exit_status>>

\* run, step 5: write_results to args.output or <input stem>_results.xlsx
RunWrite ==
    /\ pc = "aggregated"
    /\ \E output \in OutputArgs :
          output_file' = WriteResults(priced_trades, portfolio_summary,
                             IF output = None THEN "trades_results.xlsx" ELSE output)
    /\ pc' = "written"
    /\ UNCHANGED <<printed, raw_trades, validation_result, priced_trades,
                   portfolio_summary, config, exit_status>>

\* run prints the summary and returns; main returns.
MainReturn ==
    /\ pc = "written"
    /\ pc' = "done"
    /\ exit_status' = 0
    /\ UNCHANGED <<printed, raw_trades, validation_result, priced_trades,
                   portfolio_summary, config, output_file>>

Next ==
    \/ MainInputMissing
    \/ RunLoad
    \/ RunValidate
    \/ RunPrice
    \/ RunAggregate
    \/ RunWrite
    \/ MainReturn

Spec == Init /\ [][Next]_vars

\* x is None.  Values of different kinds do not compare in TLC, so the test
\* goes through the printed form.
IsNone(x) == ToString(x) = ToString(None)

ExitedNonZero == pc = "exited" /\ ~IsNone(exit_status) /\ exit_status # 0

ValidationFailed ==
    ~IsNone(validation_result) /\ Len(validation_result.errors) > 0

\* C4: once validation has recorded an error the run has halted with a
\* non-zero exit status, and no priced trade, no PortfolioSummary and no
\* output file exists, whatever records were valid.
C4_ValidationErrorHaltsRun ==
    ValidationFailed =>
        /\ ExitedNonZero
        /\ IsNone(priced_trades)
        /\ IsNone(portfolio_summary)
        /\ IsNone(output_file)

\* A batch with a valid and an invalid record, halted.
C4_Witness ==
    /\ ValidationFailed
    /\ Len(validation_result.valid_trades) > 0
    /\ ExitedNonZero

\* The aggregator has been invoked on priced trades it cannot convert.
AggregationFailed ==
    /\ ~IsNone(priced_trades)
    /\ pc # "priced"
    /\ AggregatePortfolio(priced_trades, config.valuation_date,
                          config.reporting_currency).kind = "raise"

\* C8: when aggregation fails with an unsupported conversion, the run has
\* ended with a non-zero exit status, and neither a PortfolioSummary (with
\* or without substituted amounts) nor an output file exists.
C8_AggregationFailureAbortsRun ==
    AggregationFailed =>
        /\ ExitedNonZero
        /\ IsNone(portfolio_summary)
        /\ IsNone(output_file)

\* A fully valid, priced batch whose aggregation failed on the message of
\* the unsupported conversion.
C8_Witness ==
    /\ AggregationFailed
    /\ Len(priced_trades) > 0
    /\ AggregatePortfolio(priced_trades, config.valuation_date,
                          config.reporting_currency).value
         = "Unsupported conversion JPY->USD for EURUSD"
    /\ ExitedNonZero

PdfUnderflows(i) == NormPdf(CalculateD1D2(InputOf(i))[1]) = 0

C12_PricedValuesFinite ==
    Returned =>
        \A i \in DOMAIN priced_trades :
            /\ IsFinite(priced_trades[i].pv)
            /\ IsFinite(priced_trades[i].delta)
            /\ IsFinite(priced_trades[i].vega)

\* pricing has produced a pv, a delta or a vega that is inf or nan
PricedNonFinite ==
    /\ ~IsNone(priced_trades)
    /\ \E i \in DOMAIN priced_trades :
          \/ ~IsFinite(priced_trades[i].pv)
          \/ ~IsFinite(priced_trades[i].delta)
          \/ ~IsFinite(priced_trades[i].vega)

\* C13: when pricing has yielded a value that is not finite, the run ends
\* in a fatal error: it has exited with a non-zero status once it is past
\* the pricing step, and neither a PortfolioSummary with its totals nor an
\* output file has been produced.
C13_NonFiniteIsFatal ==
    (PricedNonFinite /\ pc # "priced") =>
        /\ ExitedNonZero
        /\ IsNone(portfolio_summary)
        /\ IsNone(output_file)

\* the fields of a ValidatedTrade
ValidatedFields ==
    {"trade_id", "currency_pair", "option_type", "strike", "notional",
     "notional_currency", "time_to_expiry", "spot", "volatility",
     "domestic_rate", "foreign_rate"}

\* C14 as stated: every PricedTrade carries all the fields of the
\* ValidatedTrade it was priced from, the two rates included, unchanged.
C14_CarriesAllFields ==
    Returned =>
        \A i \in DOMAIN priced_trades :
            \A f \in ValidatedFields :
                /\ f \in DOMAIN priced_trades[i]
                /\ priced_trades[i][f] = InputOf(i)[f]

\* C14, amended: every PricedTrade carries the ValidatedTrade's fields other
\* than domestic_rate and foreign_rate, unchanged, and besides them only
\* pv, delta and vega.
C14_CarriesAllButRates ==
    Returned =>
        \A i \in DOMAIN priced_trades :
            /\ DOMAIN priced_trades[i] =
                  (ValidatedFields \ {"domestic_rate", "foreign_rate"})
                      \cup {"pv", "delta", "vega"}
            /\ \A f \in ValidatedFields \ {"domestic_rate", "foreign_rate"} :
                  priced_trades[i][f] = InputOf(i)[f]

C14_Witness ==
    /\ Returned
    /\ Len(priced_trades) = 2
    /\ InputOf(2).strike # InputOf(2).spot
    /\ InputOf(2).domestic_rate # InputOf(2).foreign_rate
    /\ priced_trades[2].strike = InputOf(2).strike
    /\ priced_trades[2].spot = InputOf(2).spot
    /\ "domestic_rate" \notin DOMAIN priced_trades[2]

\* C15: price_portfolio returns one PricedTrade per input trade, in input
\* order (the same length, the i-th result bearing the i-th trade_id), and
\* the i-th pv, delta and vega are those of the i-th trade priced on its
\* own, whatever the other trades of the portfolio.
C15_OnePricedTradePerInput ==
    Returned =>
        /\ Len(priced_trades) = Len(validation_result.valid_trades)
        /\ \A i \in 1..Len(priced_trades) :
              /\ priced_trades[i].trade_id = InputOf(i).trade_id
              /\ priced_trades[i].pv = CalculatePV(InputOf(i))
              /\ priced_trades[i].delta = CalculateDelta(InputOf(i))
              /\ priced_trades[i].vega = CalculateVega(InputOf(i))

C15_Witness ==
    /\ Returned
    /\ Len(priced_trades) = 2
    /\ InputOf(1).option_type = "PUT"
    /\ InputOf(1).strike # InputOf(2).strike
    /\ priced_trades[1].trade_id = "T1"
    /\ priced_trades[2].trade_id = "T2"
    /\ priced_trades[1].pv # priced_trades[2].pv
    /\ priced_trades[1].delta < 0
    /\ priced_trades[2].delta > 0

\* the valid trade / the error string of record i
ValidAt(i) ==
    validation_result.valid_trades[
        CHOOSE j \in DOMAIN validation_result.valid_trades :
            validation_result.valid_trades[j].trade_id = raw_trades[i].TradeID]
ErrorAt(i) ==
    validation_result.errors[
        CHOOSE j \in DOMAIN validation_result.errors :
            StartsWith(validation_result.errors[j], ErrorPrefix(raw_trades[i]))]

\* Any casing of w passes the option type step as w: the record, if
\* accepted, has option type w, and if rejected, not for its option type.
ValidatesTo(i, w) ==
    EqualsIgnoringCase(raw_trades[i].OptionType, w) =>
        /\ AcceptedAt(i) => ValidAt(i).option_type = w
        /\ RejectedAt(i) =>
              ~StartsWith(ErrorAt(i), ErrorPrefix(raw_trades[i]) \o "Invalid OptionType")

OtherOptionText(i) ==
    /\ ~EqualsIgnoringCase(raw_trades[i].OptionType, "CALL")
    /\ ~EqualsIgnoringCase(raw_trades[i].OptionType, "PUT")

\* C16 as stated: any casing of call or put validates to CALL or PUT, and
\* any other text fails with exactly
\* "Trade <trade_id>: Invalid OptionType '<raw>'. Must be one of: CALL, PUT".
C16_OptionTypeMessagePlain ==
    Returned =>
        \A i \in DOMAIN raw_trades :
            /\ ValidatesTo(i, "CALL") /\ ValidatesTo(i, "PUT")
            /\ OtherOptionText(i) =>
                  /\ RejectedAt(i)
                  /\ ErrorAt(i) = ErrorPrefix(raw_trades[i]) \o "Invalid OptionType '"
                                     \o raw_trades[i].OptionType
                                     \o "'. Must be one of: CALL, PUT"

\* C16, amended: any casing of call or put validates to CALL or PUT, and
\* any other text fails with exactly
\* "Trade <trade_id>: Invalid OptionType '<raw>'. Must be one of: ['CALL', 'PUT']".
C16_OptionTypeMessageList ==
    Returned =>
        \A i \in DOMAIN raw_trades :
            /\ ValidatesTo(i, "CALL") /\ ValidatesTo(i, "PUT")
            /\ OtherOptionText(i) =>
                  /\ RejectedAt(i)
                  /\ ErrorAt(i) = ErrorPrefix(raw_trades[i]) \o "Invalid OptionType '"
                                     \o raw_trades[i].OptionType
                                     \o "'. Must be one of: ['CALL', 'PUT']"

C16_Witness ==
    /\ Returned
    /\ Len(raw_trades) = 2
    /\ raw_trades[1].OptionType = "put"
    /\ ValidAt(1).option_type = "PUT"
    /\ raw_trades[2].OptionType = "INVALID"
    /\ validation_result.errors
          = <<"Trade T2: Invalid OptionType 'INVALID'. Must be one of: ['CALL', 'PUT']">>

\* s without the characters of `chars', in upper case
RECURSIVE UpperWithout(_, _)
UpperWithout(s, chars) ==
    IF Len(s) = 0 THEN ""
    ELSE (IF Char(s, 1) \in chars THEN "" ELSE UpperChar(Char(s, 1)))
             \o UpperWithout(SubSeq(s, 2, Len(s)), chars)

SixPairs == {"EURUSD", "GBPUSD", "USDJPY", "AUDUSD", "USDCAD", "USDCHF"}

HasOptionType(i) ==
    \/ EqualsIgnoringCase(raw_trades[i].OptionType, "CALL")
    \/ EqualsIgnoringCase(raw_trades[i].OptionType, "PUT")

\* Record i, of a valid option type, is mapped to a pair exactly when
\* `normalised' is one of the six: then it does not fail for its
\* underlying and, if accepted, holds the pair `normalised'; otherwise it
\* fails with a reason starting "Invalid Underlying '<raw>'".
MappedExactlyWhenSupported(i, normalised) ==
    LET failure == ErrorPrefix(raw_trades[i]) \o "Invalid Underlying '"
                       \o raw_trades[i].Underlying \o "'"
    IN  IF normalised \in SixPairs
        THEN /\ AcceptedAt(i) => ValidAt(i).currency_pair = normalised
             /\ RejectedAt(i) => ~StartsWith(ErrorAt(i), failure)
        ELSE RejectedAt(i) /\ StartsWith(ErrorAt(i), failure)

\* C17 as stated: the underlying is normalised by removing every "/" and
\* every whitespace character and upper-casing, and a record is mapped to a
\* pair exactly when the normalised string is one of the six pairs.
C17_NormalisedWithoutWhitespace ==
    Returned =>
        \A i \in DOMAIN raw_trades :
            HasOptionType(i) =>
                MappedExactlyWhenSupported(i,
                    UpperWithout(raw_trades[i].Underlying, {"/", " ", "\t", "\n", "\r"}))

\* C17, amended: the underlying is normalised by removing every "/" and
\* every space character and upper-casing, other whitespace staying, and a
\* record is mapped to a pair exactly when the normalised string is one of
\* the six pairs.
C17_NormalisedWithoutSpaces ==
    Returned =>
        \A i \in DOMAIN raw_trades :
            HasOptionType(i) =>
                MappedExactlyWhenSupported(i,
                    UpperWithout(raw_trades[i].Underlying, {"/", " "}))

C17_Witness ==
    /\ Returned
    /\ Len(raw_trades) = 1
    /\ raw_trades[1].Underlying = "aud / usd"
    /\ raw_trades[1].OptionType = "pUt"
    /\ Len(validation_result.valid_trades) = 1
    /\ validation_result.valid_trades[1].currency_pair = "AUDUSD"

\* the rows of the Trade_Results sheet hold the fields of the priced trades
WrittenAsPriced ==
    /\ Len(output_file.Trade_Results) = Len(priced_trades)
    /\ \A i \in DOMAIN priced_trades :
          LET row == output_file.Trade_Results[i]
              trade == PricePortfolio(validation_result.valid_trades)[i]
          IN  /\ row.TradeID = trade.trade_id
              /\ row.CurrencyPair = trade.currency_pair
              /\ row.OptionType = trade.option_type
              /\ row.Strike = trade.strike
              /\ row.Notional = trade.notional
              /\ row.NotionalCurrency = trade.notional_currency
              /\ row.Spot = trade.spot
              /\ row.TimeToExpiry = trade.time_to_expiry
              /\ row.Volatility = trade.volatility
              /\ row.PV = Round2(trade.pv, 100000000)
              /\ row.Delta = Round2(trade.delta, 10000000)
              /\ row.Vega = Round2(trade.vega, 10000000)

\* C18: no stage changes its input.  The raw records, the validation
\* result with its validated trades and the priced trades, once produced,
\* stay as they are through every later step of the run, and what the
\* writer puts out is, field for field, what pricing produced.
C18_StagesLeaveInputsUnchanged ==
    /\ [][ /\ ~IsNone(raw_trades) => raw_trades' = raw_trades
           /\ ~IsNone(validation_result) => validation_result' = validation_result
           /\ ~IsNone(priced_trades) => priced_trades' = priced_trades ]_vars
    /\ [](~IsNone(output_file) => WrittenAsPriced)

C18_Witness ==
    /\ pc = "done"
    /\ Len(raw_trades) = 2
    /\ raw_trades[2].NotionalCurrency = "JPY"
    /\ priced_trades[2].notional_currency = "JPY"
    /\ priced_trades[2].pv > 0
    /\ IsFinite(priced_trades[1].pv)
    /\ portfolio_summary.reporting_currency = "USD"
    /\ portfolio_summary.total_pv # priced_trades[1].pv + priced_trades[2].pv
    /\ output_file.Trade_Results[2].NotionalCurrency = "JPY"

\* the steps of a run, each with the one that follows it
StageOrder ==
    { <<"start", "loaded">>, <<"loaded", "validated">>, <<"validated", "priced">>,
      <<"priced", "aggregated">>, <<"aggregated", "written">>, <<"written", "done">> }

FieldViolated(raw) ==
    \/ raw.Strike <= 0 \/ raw.Notional <= 0 \/ raw.Spot <= 0
    \/ raw.Expiry <= 0 \/ raw.Expiry > 100
    \/ raw.Vol <= 0 \/ raw.Vol > 50
    \/ raw.RateDomestic < -1 \/ raw.RateDomestic > 10
    \/ raw.RateForeign < -1 \/ raw.RateForeign > 10

\* the reason that the claim's order of steps gives record i
ReasonInStepOrder(i) ==
    LET raw == raw_trades[i]
        reason(text) == ErrorPrefix(raw) \o text
        ruleError == "Validation error: 1 validation error for ValidatedTrade\n  Value error, "
    IN  IF ~HasOptionType(i)
        THEN StartsWith(ErrorAt(i), reason("Invalid OptionType '" \o raw.OptionType \o "'"))
        ELSE IF UpperWithout(raw.Underlying, {"/", " "}) \notin SixPairs
        THEN StartsWith(ErrorAt(i), reason("Invalid Underlying '" \o raw.Underlying \o "'"))
        ELSE IF raw.Expiry <= 0
        THEN ErrorAt(i) = reason("Expiry must be positive, got " \o FloatStr(raw.Expiry))
        ELSE IF FieldViolated(raw)
        THEN /\ StartsWith(ErrorAt(i), reason("Validation error: "))
             /\ ~StartsWith(ErrorAt(i), reason(ruleError))
        ELSE IF raw.Vol > 10
        THEN ErrorAt(i) = reason(ruleError \o "Volatility " \o PercentStr(raw.Vol)
                                     \o " seems unreasonably high")
        ELSE StartsWith(ErrorAt(i), reason(ruleError \o "NotionalCurrency must be"))

\* C20: a rejected record contributes exactly one error string, whose
\* reason is that of the earliest failing step in the order option type,
\* underlying, positive expiry, field constraints, volatility ceiling; with
\* a valid option type and underlying and Expiry <= 0 the string is exactly
\* "Trade <trade_id>: Expiry must be positive, got <value>".
C20_EarliestFailingStep ==
    Returned =>
        \A i \in DOMAIN raw_trades :
            RejectedAt(i) =>
                /\ Cardinality({ j \in DOMAIN validation_result.errors :
                                    StartsWith(validation_result.errors[j],
                                               ErrorPrefix(raw_trades[i])) }) = 1
                /\ ReasonInStepOrder(i)

C20_Witness ==
    /\ Returned
    /\ Len(raw_trades) = 1
    /\ raw_trades[1].OptionType = "Put"
    /\ raw_trades[1].Underlying = "usd / jpy"
    /\ raw_trades[1].Expiry = 0
    /\ raw_trades[1].Strike = 0
    /\ raw_trades[1].Vol = 51
    /\ raw_trades[1].NotionalCurrency = "EUR"
    /\ validation_result.errors = <<"Trade T1: Expiry must be positive, got 0.0">>

\* the number of errors and the lines printed for them
ErrorCount == Len(validation_result.errors)
ShownCount == IF ErrorCount < 10 THEN ErrorCount ELSE 10

\* C21: when validation has failed with n errors, the run has printed, by
\* the time it has halted, min(n, 10) error messages, the first ones in
\* input order, and, when n > 10, one more line telling that n - 10 more
\* errors exist, and no such line otherwise.
C21_BoundedErrorReport ==
    (ValidationFailed /\ pc = "exited") =>
        /\ Len(printed) = 1 + ShownCount + (IF ErrorCount > 10 THEN 1 ELSE 0)
        /\ \A i \in 1..ShownCount :
              printed[1 + i] = "  - " \o validation_result.errors[i]
        /\ ErrorCount > 10 =>
              printed[Len(printed)]
                  = "  ... and " \o ToString(ErrorCount - 10) \o " more errors"

C21_Witness ==
    /\ pc = "exited"
    /\ ValidationFailed
    /\ ErrorCount = 11
    /\ Len(raw_trades) = 12
    /\ Len(printed) = 12
    /\ StartsWith(printed[2], "  - Trade T1: Validation error")
    /\ StartsWith(printed[11], "  - Trade T11: Validation error")
    /\ printed[12] = "  ... and 1 more errors"

\* the orders in which n trades can arrive
ArrivalOrders(n) == { f \in [1..n -> 1..n] : \A i, j \in 1..n : f[i] = f[j] => i = j }

\* aggregate_portfolio on other trades, under the configuration of the call
AggregateOf(trades) ==
    AggregatePortfolio(trades, config.valuation_date, config.reporting_currency)

SameTotals(a, b) ==
    /\ a.total_trades = b.total_trades
    /\ a.total_pv = b.total_pv
    /\ a.total_delta = b.total_delta
    /\ a.total_vega = b.total_vega

\* C22: aggregation is a commutative and associative reduction.  Every
\* permutation of the input fails if and only if the input does; when every
\* trade is convertible every permutation gives the same count and totals,
\* and the totals of the input split anywhere into A ++ B are the sums of
\* the totals of A and of B.
C22_OrderIndependentReduction ==
    Returned =>
        LET n == Len(priced_trades)
        IN  /\ \A f \in ArrivalOrders(n) :
                  LET permuted == AggregateOf([i \in 1..n |-> priced_trades[f[i]]])
                  IN  /\ permuted.kind = portfolio_summary.kind
                      /\ portfolio_summary.kind = "ok" =>
                            SameTotals(permuted.value, portfolio_summary.value)
            /\ portfolio_summary.kind = "ok" =>
                  \A k \in 0..n :
                      LET a == AggregateOf(SubSeq(priced_trades, 1, k)).value
                          b == AggregateOf(SubSeq(priced_trades, k + 1, n)).value
                      IN  /\ portfolio_summary.value.total_trades
                                = a.total_trades + b.total_trades
                          /\ portfolio_summary.value.total_pv = a.total_pv + b.total_pv
                          /\ portfolio_summary.value.total_delta
                                = a.total_delta + b.total_delta
                          /\ portfolio_summary.value.total_vega
                                = a.total_vega + b.total_vega

\* a JPY trade converted by its spot and a USD trade, in either order
C22_Witness ==
    /\ Returned
    /\ Len(priced_trades) = 2
    /\ priced_trades[1].currency_pair = "USDJPY"
    /\ Upper(priced_trades[1].notional_currency) = "JPY"
    /\ Upper(priced_trades[2].notional_currency) = "USD"
    /\ priced_trades[1].pv # priced_trades[2].pv
    /\ config.reporting_currency = "USD"
    /\ portfolio_summary.kind = "ok"
    /\ portfolio_summary.value.total_pv
          = AggregateOf(<<priced_trades[2], priced_trades[1]>>).value.total_pv
    /\ portfolio_summary.value.total_pv # priced_trades[1].pv + priced_trades[2].pv

\* the run is past the aggregation step
AggregationAttempted ==
    ~IsNone(priced_trades) /\ pc \in {"aggregated", "written", "done", "exited"}

\* a priced trade holds JPY on a pair other than USDJPY
JpyOffUsdJpy ==
    \E i \in DOMAIN priced_trades :
        /\ priced_trades[i].notional_currency = "JPY"
        /\ priced_trades[i].currency_pair # "USDJPY"

====
